---- MODULE Spec2Model ----
(***************************************************************************)
(* NeoLoc One: the authorization and federated-session core.               *)
(*                                                                         *)
(*   server/storage.ts          MemStorage: users, sessions, RBAC tables   *)
(*   unnamed/part_006 (routes)  the HTTP handlers: login, logout,          *)
(*                              validate, SSO mint and SSO redeem          *)
(*                                                                         *)
(* A handler is an async function: it runs without interruption up to an   *)
(* `await`, and other requests run between its awaits.  Each handler is    *)
(* therefore a small process whose program counter stops at the awaits.    *)
(* A MemStorage method has no await in its body, so its reads and writes   *)
(* happen at the moment the handler calls it.                              *)
(*                                                                         *)
(* Time is counted in ticks of one second, the resolution of a JWT's iat   *)
(* and exp claims; the two lifetimes are scaled down to a few ticks.       *)
(***************************************************************************)
EXTENDS Integers, FiniteSets, Sequences, TLC

\* ------------------------------------------------------------------ bounds
MaxTime == 1            \* the clock stops here
MaxSsoTokens == 1       \* SsoToken rows held at once
MaxSessions == 2        \* Session rows held at once
MaxRoles == 5           \* ids of the roles table: four built-in, the rest custom
MaxPermissions == 3     \* ids of the permissions table: two at boot, the rest created

\* ------------------------------------------------------- program constants
SsoTtl == 1             \* 5 minutes, in ticks
SessionTtl == 1         \* 24 hours, in ticks

Null == -1              \* a null timestamp (usedAt)

UserIds == {"u1", "u2"}
ModuleIds == {"m1", "m2"}
RoleNames == {"administrator", "manager", "operator", "viewer"}
Actions == {"read", "write"}

\* modules.get(id).name
ModuleName(m) == IF m = "m1" THEN "inventario" ELSE "compras"

Resources == {"inventario", "compras", "system.roles"}

RoleIds == 1..MaxRoles
PermIds == 1..MaxPermissions

\* the four built-in roles of initializeRoles, in insertion order
SystemRoles == <<"administrator", "manager", "operator", "viewer">>

\* the permissions of initializePermissions (modules x actions), scaled to one module
BootPermissions ==
    <<[resource |-> "inventario", action |-> "read"],
      [resource |-> "inventario", action |-> "write"]>>

VARIABLES
    now,              \* the clock (new Date(), Date.now())
    users,            \* MemStorage.users: id -> [role, isActive, password, email]
    sessions,         \* MemStorage.sessions: token -> [userId, expiresAt]
    ssoTokens,        \* the SsoToken table: token -> [userId, moduleId, expiresAt, usedAt]
    roles,            \* MemStorage.roles: id -> [name, isSystem]
    permissions,      \* MemStorage.permissions: id -> [resource, action]
    rolePermissions,  \* MemStorage.rolePermissions: <<roleId, permissionId>> -> number of edges
    userRoles,        \* MemStorage.userRoles: <<userId, roleId, assignedBy>> -> number of edges
    reqs,             \* the redeem requests in flight, with their local variables
    calls,            \* the login / logout / validate requests in flight
    succeeded,        \* history: the SSO tokens some redeem has reported success for
    loggedOut,        \* history: the session tokens some logout has completed for
    issued,           \* history: the session tokens login has returned
    created,          \* history: the role ids createRole has produced
    lastCall          \* history: the last storage call of the RBAC API and its result

storeVars == <<users, sessions, ssoTokens>>
rbacVars == <<roles, permissions, rolePermissions, userRoles>>
histVars == <<succeeded, loggedOut, issued, created, lastCall>>
vars == <<now, users, sessions, ssoTokens, roles, permissions, rolePermissions,
          userRoles, reqs, calls, succeeded, loggedOut, issued, created, lastCall>>

\* ----------------------------------------------------------------- helpers
\* Map.set(k, v)
Put(f, k, v) == [x \in DOMAIN f \cup {k} |-> IF x = k THEN v ELSE f[x]]

\* Map.delete(k) for every k in K
Remove(f, K) == [x \in DOMAIN f \ K |-> f[x]]

NoUser == [id |-> "none", role |-> "none", isActive |-> FALSE, password |-> "none",
           email |-> "none"]
NoRow == [userId |-> "none", moduleId |-> "none", expiresAt |-> Null, usedAt |-> Null]
NoSession == [userId |-> "none", expiresAt |-> Null]
NoResp == [status |-> 0, message |-> "none"]

Resp(status, message) == [status |-> status, message |-> message]

\* this.users.get(id), with the id carried along
getUser(id) ==
    IF id \in DOMAIN users
    THEN [id |-> id, role |-> users[id].role, isActive |-> users[id].isActive,
          password |-> users[id].password, email |-> users[id].email]
    ELSE NoUser

\* --------------------------------------------------------------------- JWT
\* A signed token is its payload: HS256 over the same payload and the same
\* iat (a whole second) gives the same string.
Garbage == [type |-> "garbage", userId |-> "none", moduleId |-> "none", role |-> "none", iat |-> 0]

\* the string of a session token signed at second iat
SessionJwt(userId, role, iat) ==
    [type |-> "session", userId |-> userId, moduleId |-> "none", role |-> role, iat |-> iat]

\* jwt.sign({userId, email, role}, JWT_SECRET, {expiresIn: "24h"})
SignSession(user) == SessionJwt(user.id, user.role, now)

\* jwt.sign({userId, moduleId, email, fullName, role, type: 'sso'}, JWT_SECRET, {expiresIn: "5m"})
SignSso(user, moduleId) ==
    [type |-> "sso", userId |-> user.id, moduleId |-> moduleId, role |-> user.role, iat |-> now]

\* the exp claim jwt.sign adds
JwtExp(tok) == tok.iat + (IF tok.type = "sso" THEN SsoTtl ELSE SessionTtl)

\* jwt.verify without the exp claim
JwtVerifies_noExp(tok) == tok.type # "garbage"

\* jwt.verify(token, JWT_SECRET) returns the payload; it throws on a bad
\* signature and once the clock has reached exp
JwtVerifies(tok) == tok.type # "garbage" /\ now < JwtExp(tok)

\* -------------------------------------------------------------------- RBAC
NoCall == [op |-> "none", id |-> 0, ret |-> FALSE]

\* randomUUID(): an id no row of the table has had
FreshRoleId == CHOOSE id \in RoleIds \ (DOMAIN roles \cup created \cup (1..Len(SystemRoles))) :
                 \A j \in RoleIds \ (DOMAIN roles \cup created \cup (1..Len(SystemRoles))) : id <= j

FreshPermId == CHOOSE id \in PermIds \ DOMAIN permissions :
                 \A j \in PermIds \ DOMAIN permissions : id <= j

RECURSIVE SetToSeq(_)
SetToSeq(S) ==
    IF S = {} THEN <<>>
    ELSE LET x == CHOOSE y \in S : \A z \in S : y <= z
         IN  <<x>> \o SetToSeq(S \ {x})

\* getRolePermissions(roleId): the permissions the role's edges lead to, dangling edges dropped
getRolePermissions(roleId) ==
    {p \in DOMAIN permissions : rolePermissions[<<roleId, p>>] > 0}

\* getUserRoles(userId): the roles the user's edges lead to, dangling edges dropped
getUserRoles(userId) ==
    {r \in DOMAIN roles : \E by \in UserIds : userRoles[<<userId, r, by>>] > 0}

\* the loop of getUserPermissions: allPermissions.set(permission.id, permission)
RECURSIVE CollectPermissions(_, _)
CollectPermissions(roleSeq, allPermissions) ==
    IF roleSeq = <<>> THEN allPermissions
    ELSE CollectPermissions(
             Tail(roleSeq),
             [id \in DOMAIN allPermissions \cup getRolePermissions(Head(roleSeq)) |->
                 permissions[id]])

\* getUserPermissions(userId): Array.from(allPermissions.values()), as id -> permission
getUserPermissions(userId) ==
    CollectPermissions(SetToSeq(getUserRoles(userId)), [id \in {} |-> 0])

\* the same with the super-admin bypass left out
userHasPermission_noBypass(userId, resource, action) ==
    LET user == getUser(userId)
        userPermissions == getUserPermissions(userId)
    IN  IF user = NoUser \/ ~user.isActive THEN FALSE
        ELSE \E id \in DOMAIN userPermissions :
                 /\ userPermissions[id].resource = resource
                 /\ userPermissions[id].action = action

\* the same with the action left out of the match
userHasPermission_anyAction(userId, resource, action) ==
    LET user == getUser(userId)
        userPermissions == getUserPermissions(userId)
    IN  IF user = NoUser \/ ~user.isActive THEN FALSE
        ELSE IF user.role = "administrator" THEN TRUE
        ELSE \E id \in DOMAIN userPermissions : userPermissions[id].resource = resource

\* userHasPermission(userId, resource, action)
userHasPermission(userId, resource, action) ==
    LET user == getUser(userId)
        userPermissions == getUserPermissions(userId)
    IN  IF user = NoUser \/ ~user.isActive THEN FALSE
        ELSE IF user.role = "administrator" THEN TRUE
        ELSE \E id \in DOMAIN userPermissions :
                 /\ userPermissions[id].resource = resource
                 /\ userPermissions[id].action = action

\* userHasRole(userId, roleName)
userHasRole(userId, roleName) ==
    \E r \in getUserRoles(userId) : roles[r].name = roleName

\* the RBAC API answers with a value; the model keeps the last one
Called(op, id, ret) == [op |-> op, id |-> id, ret |-> ret]

\* the RolePermission edge assignPermissionToRole returns
ReturnedRolePermission(roleId, permissionId) ==
    [op |-> "assignPermissionToRole", id |-> roleId, ret |-> TRUE,
     permissionId |-> permissionId]

\* the UserRole edge assignRoleToUser returns; requestedBy is the call's assignedBy
ReturnedUserRole(userId, roleId, assignedBy, requestedBy) ==
    [op |-> "assignRoleToUser", id |-> roleId, ret |-> TRUE,
     userId |-> userId, assignedBy |-> assignedBy, requestedBy |-> requestedBy]

\* createRole(insertRole): {id: randomUUID(), ...insertRole, isSystem: false}
createRole(name) ==
    /\ RoleIds \ (DOMAIN roles \cup created \cup (1..Len(SystemRoles))) # {}
    /\ roles' = Put(roles, FreshRoleId, [name |-> name, isSystem |-> FALSE])
    /\ created' = created \cup {FreshRoleId}
    /\ lastCall' = Called("createRole", FreshRoleId, TRUE)
    /\ UNCHANGED <<now, storeVars, permissions, rolePermissions, userRoles, reqs, calls,
                   succeeded, loggedOut, issued>>

\* updateRole(id, updates): {...role, ...updates}
updateRole(id, updates) ==
    /\ IF id \notin DOMAIN roles
       THEN /\ UNCHANGED roles
            /\ lastCall' = Called("updateRole", id, FALSE)
       ELSE /\ roles' = [roles EXCEPT ![id] =
                  [f \in DOMAIN roles[id] |->
                      IF f \in DOMAIN updates THEN updates[f] ELSE roles[id][f]]]
            /\ lastCall' = Called("updateRole", id, TRUE)
    /\ UNCHANGED <<now, storeVars, permissions, rolePermissions, userRoles, reqs, calls,
                   succeeded, loggedOut, issued, created>>

\* deleteRole with the cascade cut short: of the role's permission edges only the
\* first goes
deleteRole_halfCascade(id) ==
    /\ IF id \notin DOMAIN roles \/ roles[id].isSystem
       THEN /\ UNCHANGED <<roles, rolePermissions, userRoles>>
            /\ lastCall' = Called("deleteRole", id, FALSE)
       ELSE /\ rolePermissions' = [e \in DOMAIN rolePermissions |->
                                      IF /\ e[1] = id
                                         /\ \A p \in PermIds : rolePermissions[<<id, p>>] > 0 => e[2] <= p
                                      THEN 0 ELSE rolePermissions[e]]
            /\ userRoles' = [e \in DOMAIN userRoles |->
                                IF e[2] = id THEN 0 ELSE userRoles[e]]
            /\ roles' = Remove(roles, {id})
            /\ lastCall' = Called("deleteRole", id, TRUE)
    /\ UNCHANGED <<now, storeVars, permissions, reqs, calls,
                   succeeded, loggedOut, issued, created>>

\* deleteRole without the cascade over the edge tables
deleteRole_noCascade(id) ==
    /\ IF id \notin DOMAIN roles \/ roles[id].isSystem
       THEN /\ UNCHANGED <<roles, rolePermissions, userRoles>>
            /\ lastCall' = Called("deleteRole", id, FALSE)
       ELSE /\ UNCHANGED <<rolePermissions, userRoles>>
            /\ roles' = Remove(roles, {id})
            /\ lastCall' = Called("deleteRole", id, TRUE)
    /\ UNCHANGED <<now, storeVars, permissions, reqs, calls,
                   succeeded, loggedOut, issued, created>>

\* deleteRole with the isSystem test left out
deleteRole_noSystemCheck(id) ==
    /\ IF id \notin DOMAIN roles
       THEN /\ UNCHANGED <<roles, rolePermissions, userRoles>>
            /\ lastCall' = Called("deleteRole", id, FALSE)
       ELSE /\ rolePermissions' = [e \in DOMAIN rolePermissions |->
                                      IF e[1] = id THEN 0 ELSE rolePermissions[e]]
            /\ userRoles' = [e \in DOMAIN userRoles |->
                                IF e[2] = id THEN 0 ELSE userRoles[e]]
            /\ roles' = Remove(roles, {id})
            /\ lastCall' = Called("deleteRole", id, TRUE)
    /\ UNCHANGED <<now, storeVars, permissions, reqs, calls,
                   succeeded, loggedOut, issued, created>>

\* deleteRole(id): false for a missing or a system role; else the edges go, then the role
deleteRole(id) ==
    /\ IF id \notin DOMAIN roles \/ roles[id].isSystem
       THEN /\ UNCHANGED <<roles, rolePermissions, userRoles>>
            /\ lastCall' = Called("deleteRole", id, FALSE)
       ELSE /\ rolePermissions' = [e \in DOMAIN rolePermissions |->
                                      IF e[1] = id THEN 0 ELSE rolePermissions[e]]
            /\ userRoles' = [e \in DOMAIN userRoles |->
                                IF e[2] = id THEN 0 ELSE userRoles[e]]
            /\ roles' = Remove(roles, {id})
            /\ lastCall' = Called("deleteRole", id, TRUE)
    /\ UNCHANGED <<now, storeVars, permissions, reqs, calls,
                   succeeded, loggedOut, issued, created>>

\* createPermission(insertPermission): {id: randomUUID(), ...insertPermission}
createPermission(resource, action) ==
    /\ PermIds \ DOMAIN permissions # {}
    /\ permissions' = Put(permissions, FreshPermId, [resource |-> resource, action |-> action])
    /\ lastCall' = NoCall
    /\ UNCHANGED <<now, storeVars, roles, rolePermissions, userRoles, reqs, calls,
                   succeeded, loggedOut, issued, created>>

\* assignPermissionToRole(roleId, permissionId): the existing edge, or a new one
assignPermissionToRole(roleId, permissionId) ==
    /\ rolePermissions' =
          IF rolePermissions[<<roleId, permissionId>>] > 0 THEN rolePermissions
          ELSE [rolePermissions EXCEPT ![<<roleId, permissionId>>] = @ + 1]
    /\ lastCall' = ReturnedRolePermission(roleId, permissionId)
    /\ UNCHANGED <<now, storeVars, roles, permissions, userRoles, reqs, calls,
                   succeeded, loggedOut, issued, created>>

\* removePermissionFromRole(roleId, permissionId): the first matching edge goes
removePermissionFromRole(roleId, permissionId) ==
    /\ rolePermissions' =
          IF rolePermissions[<<roleId, permissionId>>] > 0
          THEN [rolePermissions EXCEPT ![<<roleId, permissionId>>] = @ - 1]
          ELSE rolePermissions
    /\ lastCall' = NoCall
    /\ UNCHANGED <<now, storeVars, roles, permissions, userRoles, reqs, calls,
                   succeeded, loggedOut, issued, created>>

\* assignRoleToUser without the search for an existing edge
assignRoleToUser_noExistingCheck(userId, roleId, assignedBy) ==
    /\ userRoles' = [userRoles EXCEPT ![<<userId, roleId, assignedBy>>] = @ + 1]
    /\ lastCall' = ReturnedUserRole(userId, roleId, assignedBy, assignedBy)
    /\ UNCHANGED <<now, storeVars, roles, permissions, rolePermissions, reqs, calls,
                   succeeded, loggedOut, issued, created>>

\* assignRoleToUser(userId, roleId, assignedBy): the existing edge, or a new one
assignRoleToUser(userId, roleId, assignedBy) ==
    LET existing == {by \in UserIds : userRoles[<<userId, roleId, by>>] > 0}
    IN  /\ userRoles' =
              IF existing # {} THEN userRoles
              ELSE [userRoles EXCEPT ![<<userId, roleId, assignedBy>>] = @ + 1]
        /\ lastCall' =
              \* .find(): the first matching edge in insertion order, which the
              \* table does not keep: any of the matching edges
              IF existing # {}
              THEN ReturnedUserRole(userId, roleId, CHOOSE by \in existing : TRUE, assignedBy)
              ELSE ReturnedUserRole(userId, roleId, assignedBy, assignedBy)
    /\ UNCHANGED <<now, storeVars, roles, permissions, rolePermissions, reqs, calls,
                   succeeded, loggedOut, issued, created>>

\* removeRoleFromUser(userId, roleId): the first matching edge goes
removeRoleFromUser(userId, roleId) ==
    /\ IF \E by \in UserIds : userRoles[<<userId, roleId, by>>] > 0
       THEN \E by \in UserIds :
               /\ userRoles[<<userId, roleId, by>>] > 0
               /\ userRoles' = [userRoles EXCEPT ![<<userId, roleId, by>>] = @ - 1]
       ELSE UNCHANGED userRoles
    /\ lastCall' = NoCall
    /\ UNCHANGED <<now, storeVars, roles, permissions, rolePermissions, reqs, calls,
                   succeeded, loggedOut, issued, created>>

\* ------------------------------------------------------------------ guards
\* what a guard did with a request: ret says whether next() ran; check is what
\* the storage call gave ("true", "false", or "error" when it threw)
GuardOutcome(op, reqRole, check, ret, resp) ==
    [op |-> op, id |-> 0, ret |-> ret, reqRole |-> reqRole, check |-> check, resp |-> resp]

BoolStr(b) == IF b THEN "true" ELSE "false"

\* requirePermission whose catch block calls next()
requirePermission_failOpen(userId, reqRole, resource, action, throws) ==
    LET hasPermission == userHasPermission(userId, resource, action)
    IN  /\ lastCall' =
              IF throws
              THEN GuardOutcome("requirePermission", reqRole, "error", TRUE, NoResp)
              ELSE IF ~hasPermission
              THEN GuardOutcome("requirePermission", reqRole, "false", FALSE,
                                Resp(403, "Access denied"))
              ELSE GuardOutcome("requirePermission", reqRole, "true", TRUE, NoResp)
        /\ UNCHANGED <<now, storeVars, rbacVars, reqs, calls,
                       succeeded, loggedOut, issued, created>>

\* requirePermission(resource, action), for the req.user that authenticateToken
\* set; throws says that the storage call threw
requirePermission(userId, reqRole, resource, action, throws) ==
    LET hasPermission == userHasPermission(userId, resource, action)
    IN  /\ lastCall' =
              IF throws
              THEN GuardOutcome("requirePermission", reqRole, "error", FALSE,
                                Resp(500, "Permission check failed"))
              ELSE IF ~hasPermission
              THEN GuardOutcome("requirePermission", reqRole, "false", FALSE,
                                Resp(403, "Access denied"))
              ELSE GuardOutcome("requirePermission", reqRole, "true", TRUE, NoResp)
        /\ UNCHANGED <<now, storeVars, rbacVars, reqs, calls,
                       succeeded, loggedOut, issued, created>>

\* requireRole(roleName): denies when !hasRole && req.user.role !== 'administrator'
requireRole(userId, reqRole, roleName, throws) ==
    LET hasRole == userHasRole(userId, roleName)
    IN  /\ lastCall' =
              IF throws
              THEN GuardOutcome("requireRole", reqRole, "error", FALSE,
                                Resp(500, "Role check failed"))
              ELSE IF ~hasRole /\ reqRole # "administrator"
              THEN GuardOutcome("requireRole", reqRole, BoolStr(hasRole), FALSE,
                                Resp(403, "Access denied"))
              ELSE GuardOutcome("requireRole", reqRole, BoolStr(hasRole), TRUE, NoResp)
        /\ UNCHANGED <<now, storeVars, rbacVars, reqs, calls,
                       succeeded, loggedOut, issued, created>>

\* ---------------------------------------------------------------- sessions
\* getSessionByToken(token): the row, unless absent or expired
getSessionByToken(token) ==
    IF token \in DOMAIN sessions /\ sessions[token].expiresAt > now
    THEN sessions[token]
    ELSE NoSession

\* getSessionByToken's side effect: an expired row is deleted on lookup
SessionsAfterLookup(token) ==
    IF token \in DOMAIN sessions /\ ~(sessions[token].expiresAt > now)
    THEN Remove(sessions, {token})
    ELSE sessions

\* createSession(insertSession): this.sessions.set(session.token, session)
createSession(token, userId, expiresAt) ==
    Put(sessions, token, [userId |-> userId, expiresAt |-> expiresAt])

\* deleteSession(token): this.sessions.delete(token)
deleteSession(token) == Remove(sessions, {token})

\* the sweep with a strict comparison
deleteExpiredSessions_strict ==
    Remove(sessions, {t \in DOMAIN sessions : sessions[t].expiresAt < now})

\* deleteExpiredSessions(): the rows with expiresAt <= now go
deleteExpiredSessions ==
    Remove(sessions, {t \in DOMAIN sessions : sessions[t].expiresAt <= now})

\* -------------------------------------------------------------- SSO tokens
\* validateSsoToken(token, moduleId): the row with this token string and this
\* module, unless absent, expired or already redeemed
validateSsoToken(token, moduleId) ==
    IF /\ token \in DOMAIN ssoTokens
       /\ ssoTokens[token].moduleId = moduleId
       /\ ssoTokens[token].expiresAt > now
       /\ ssoTokens[token].usedAt = Null
    THEN ssoTokens[token]
    ELSE NoRow

\* markSsoTokenAsUsed(token, ip, userAgent): sets the row's usedAt
markSsoTokenAsUsed(token) ==
    IF token \in DOMAIN ssoTokens
    THEN [ssoTokens EXCEPT ![token].usedAt = now]
    ELSE ssoTokens

\* createSsoToken(row): a new row with a null usedAt; the token column is unique
createSsoToken(token, userId, moduleId, expiresAt) ==
    Put(ssoTokens, token,
        [userId |-> userId, moduleId |-> moduleId, expiresAt |-> expiresAt, usedAt |-> Null])

\* deleteExpiredSsoTokens(): the rows past expiry go, redeemed or not
deleteExpiredSsoTokens ==
    Remove(ssoTokens, {t \in DOMAIN ssoTokens : ssoTokens[t].expiresAt <= now})

\* -------------------------------------------------------------- SSO: mint
\* authenticateToken, as one lookup: the user the bearer token stands for
AuthenticatedUser(bearer) ==
    LET session == getSessionByToken(bearer)
        user == getUser(session.userId)
    IN  IF ~JwtVerifies(bearer) \/ session = NoSession THEN NoUser
        ELSE IF user = NoUser \/ ~user.isActive THEN NoUser
        ELSE user

\* the mint with the module access check left out
MintSso_noAccessCheck(bearer, moduleId) ==
    LET user == AuthenticatedUser(bearer)
        ssoToken == SignSso(user, moduleId)
    IN  /\ Cardinality(DOMAIN ssoTokens) < MaxSsoTokens
        /\ sessions' = (IF JwtVerifies(bearer) THEN SessionsAfterLookup(bearer) ELSE sessions)
        /\ ssoTokens' =
              IF /\ user # NoUser
                 /\ moduleId \in ModuleIds
                 /\ ssoToken \notin DOMAIN ssoTokens
              THEN createSsoToken(ssoToken, user.id, moduleId, now + SsoTtl)
              ELSE ssoTokens
        /\ UNCHANGED <<now, users, rbacVars, reqs, calls, histVars>>

\* POST /api/sso/generate-token and POST /api/modules/:id/sso-url
MintSso(bearer, moduleId) ==
    LET user == AuthenticatedUser(bearer)
        hasAccess == userHasPermission(user.id, ModuleName(moduleId), "read")
        ssoToken == SignSso(user, moduleId)
    IN  /\ Cardinality(DOMAIN ssoTokens) < MaxSsoTokens
        /\ sessions' = (IF JwtVerifies(bearer) THEN SessionsAfterLookup(bearer) ELSE sessions)
        /\ ssoTokens' =
              IF /\ user # NoUser
                 /\ moduleId \in ModuleIds
                 /\ (hasAccess \/ user.role = "administrator")
                 /\ ssoToken \notin DOMAIN ssoTokens
              THEN createSsoToken(ssoToken, user.id, moduleId, now + SsoTtl)
              ELSE ssoTokens
        /\ UNCHANGED <<now, users, rbacVars, reqs, calls, histVars>>

\* the authorization check of the two mint routes:
\* !hasAccess && req.user.role !== 'administrator' answers 403
MintAuthorized(user, moduleId) ==
    userHasPermission(user.id, ModuleName(moduleId), "read") \/ user.role = "administrator"

\* getModulesForUser(userId): every module for an administrator, else the modules
\* whose name is the resource of a read, write or admin permission of the user
\* outside the system.* resources (every module of the model is active)
getModulesForUser(userId) ==
    LET user == getUser(userId)
        userPermissions == getUserPermissions(userId)
        accessibleModules ==
            {userPermissions[id].resource : id \in
                {q \in DOMAIN userPermissions :
                    /\ userPermissions[q].action \in {"read", "write", "admin"}
                    /\ userPermissions[q].resource \notin {"system.roles"}}}
    IN  IF user = NoUser THEN {}
        ELSE IF user.role = "administrator" THEN ModuleIds
        ELSE {m \in ModuleIds : ModuleName(m) \in accessibleModules}

\* --------------------------------------------- requests behind the guards
\* what the middleware chain did with a request carrying bearer: ret says
\* whether the protected handler ran
RequestOutcome(op, bearer, resource, action, ret, resp) ==
    [op |-> op, id |-> 0, ret |-> ret, bearer |-> bearer, resource |-> resource,
     action |-> action, resp |-> resp]

\* requireAdmin deciding on the role claim of the token
AdminRequest_tokenRole(bearer) ==
    LET user == AuthenticatedUser(bearer)
    IN  /\ sessions' = (IF JwtVerifies(bearer) THEN SessionsAfterLookup(bearer) ELSE sessions)
        /\ lastCall' =
              IF user = NoUser
              THEN RequestOutcome("requireAdmin", bearer, "none", "none", FALSE,
                                  Resp(401, "Unauthenticated"))
              ELSE IF bearer.role # "administrator"
              THEN RequestOutcome("requireAdmin", bearer, "none", "none", FALSE,
                                  Resp(403, "Administrator access required"))
              ELSE RequestOutcome("requireAdmin", bearer, "none", "none", TRUE, NoResp)
        /\ UNCHANGED <<now, users, ssoTokens, rbacVars, reqs, calls,
                       succeeded, loggedOut, issued, created>>

\* a request to a route behind authenticateToken and requireAdmin:
\* req.user is the record getUser returned, requireAdmin reads req.user.role
AdminRequest(bearer) ==
    LET user == AuthenticatedUser(bearer)
    IN  /\ sessions' = (IF JwtVerifies(bearer) THEN SessionsAfterLookup(bearer) ELSE sessions)
        /\ lastCall' =
              IF user = NoUser
              THEN RequestOutcome("requireAdmin", bearer, "none", "none", FALSE,
                                  Resp(401, "Unauthenticated"))
              ELSE IF user.role # "administrator"
              THEN RequestOutcome("requireAdmin", bearer, "none", "none", FALSE,
                                  Resp(403, "Administrator access required"))
              ELSE RequestOutcome("requireAdmin", bearer, "none", "none", TRUE, NoResp)
        /\ UNCHANGED <<now, users, ssoTokens, rbacVars, reqs, calls,
                       succeeded, loggedOut, issued, created>>

\* a request to a route behind authenticateToken and requirePermission(resource, action)
PermissionRequest(bearer, resource, action) ==
    LET user == AuthenticatedUser(bearer)
    IN  /\ sessions' = (IF JwtVerifies(bearer) THEN SessionsAfterLookup(bearer) ELSE sessions)
        /\ lastCall' =
              IF user = NoUser
              THEN RequestOutcome("requirePermission", bearer, resource, action, FALSE,
                                  Resp(401, "Unauthenticated"))
              ELSE IF ~userHasPermission(user.id, resource, action)
              THEN RequestOutcome("requirePermission", bearer, resource, action, FALSE,
                                  Resp(403, "Access denied"))
              ELSE RequestOutcome("requirePermission", bearer, resource, action, TRUE, NoResp)
        /\ UNCHANGED <<now, users, ssoTokens, rbacVars, reqs, calls,
                       succeeded, loggedOut, issued, created>>

\* ------------------------------------------------------------ SSO: redeem

IdleReq ==
    [pc |-> "idle", token |-> Garbage, moduleId |-> "none", ssoToken |-> NoRow,
     user |-> NoUser, resp |-> NoResp, afterSuccess |-> FALSE, userGone |-> FALSE]

\* the redeem requests of a run: two, each sent once, so that they can overlap
Slots == {"r1", "r2"}

\* the response of the handler's catch block
RedeemCatch == Resp(401, "Invalid or expired token")

\* res.json({valid: true, userData: {id, email, fullName, role, moduleAccess}}),
\* every field read from the user record getUser returned
RedeemOk(user) ==
    [status |-> 200, message |-> "valid",
     userData |-> [id |-> user.id, email |-> user.email, role |-> user.role]]

\* what finishes a request: the response is sent and the locals are dropped
Finish(r, resp) ==
    [r EXCEPT !.pc = "done", !.resp = resp, !.ssoToken = NoRow, !.user = NoUser]

\* the first step with the module taken from the token's own claim
RedeemValidate_trustsClaim(i, token, moduleId) ==
    LET r == [IdleReq EXCEPT !.token = token, !.moduleId = moduleId,
                             !.afterSuccess = (token \in succeeded)]
    IN  /\ reqs[i].pc = "idle"
        /\ reqs' = [reqs EXCEPT ![i] =
              IF ~JwtVerifies(token) THEN Finish(r, RedeemCatch)
              ELSE IF token.type # "sso"
                   THEN Finish(r, Resp(401, "Invalid SSO token"))
              ELSE [r EXCEPT !.pc = "validated",
                             !.ssoToken = validateSsoToken(token, token.moduleId)]]
        /\ UNCHANGED <<now, storeVars, rbacVars, calls, histVars>>

\* POST /api/sso/validate-token, up to the first await:
\* jwt.verify, the type and module check, the call of validateSsoToken
RedeemValidate(i, token, moduleId) ==
    LET r == [IdleReq EXCEPT !.token = token, !.moduleId = moduleId,
                             !.afterSuccess = (token \in succeeded)]
    IN  /\ reqs[i].pc = "idle"
        /\ reqs' = [reqs EXCEPT ![i] =
              IF ~JwtVerifies(token) THEN Finish(r, RedeemCatch)
              ELSE IF token.type # "sso" \/ token.moduleId # moduleId
                   THEN Finish(r, Resp(401, "Invalid SSO token"))
              ELSE [r EXCEPT !.pc = "validated",
                             !.ssoToken = validateSsoToken(token, moduleId)]]
        /\ UNCHANGED <<now, storeVars, rbacVars, calls, histVars>>

\* the second step without the row check
RedeemGetUser_noRowCheck(i) ==
    LET r == reqs[i]
        user == getUser(r.token.userId)
    IN  /\ r.pc = "validated"
        /\ reqs' = [reqs EXCEPT ![i] =
              [r EXCEPT !.pc = "gotUser", !.user = user,
                        !.userGone = (user = NoUser \/ ~user.isActive)]]
        /\ UNCHANGED <<now, storeVars, rbacVars, calls, histVars>>

\* ... to the second await: the row check, the call of getUser
RedeemGetUser(i) ==
    LET r == reqs[i]
        user == getUser(r.token.userId)
    IN  /\ r.pc = "validated"
        /\ reqs' = [reqs EXCEPT ![i] =
              IF r.ssoToken = NoRow
              THEN Finish(r, Resp(401, "Token expired or already used"))
              ELSE [r EXCEPT !.pc = "gotUser", !.user = user,
                             !.userGone = (user = NoUser \/ ~user.isActive)]]
        /\ UNCHANGED <<now, storeVars, rbacVars, calls, histVars>>

\* the third step with the write ahead of the user check
RedeemMark_marksFirst(i) ==
    LET r == reqs[i]
    IN  /\ r.pc = "gotUser"
        /\ reqs' = [reqs EXCEPT ![i] =
              IF r.user = NoUser \/ ~r.user.isActive
              THEN Finish(r, Resp(401, "User not found or inactive"))
              ELSE [r EXCEPT !.pc = "marked"]]
        /\ ssoTokens' = markSsoTokenAsUsed(r.token)
        /\ UNCHANGED <<now, users, sessions, rbacVars, calls, histVars>>

\* the third step with the user taken as found at minting
RedeemMark_noUserCheck(i) ==
    LET r == reqs[i]
    IN  /\ r.pc = "gotUser"
        /\ reqs' = [reqs EXCEPT ![i].pc = "marked"]
        /\ ssoTokens' = markSsoTokenAsUsed(r.token)
        /\ UNCHANGED <<now, users, sessions, rbacVars, calls, histVars>>

\* ... to the third await: the user check, the call of markSsoTokenAsUsed
RedeemMark(i) ==
    LET r == reqs[i]
    IN  /\ r.pc = "gotUser"
        /\ IF r.user = NoUser \/ ~r.user.isActive
           THEN /\ reqs' = [reqs EXCEPT ![i] = Finish(r, Resp(401, "User not found or inactive"))]
                /\ UNCHANGED ssoTokens
           ELSE /\ reqs' = [reqs EXCEPT ![i].pc = "marked"]
                /\ ssoTokens' = markSsoTokenAsUsed(r.token)
        /\ UNCHANGED <<now, users, sessions, rbacVars, calls, histVars>>

\* the failed write taken for a finished one
RedeemMarkFails_swallowed(i) ==
    LET r == reqs[i]
    IN  /\ r.pc = "gotUser"
        /\ r.user # NoUser /\ r.user.isActive
        /\ reqs' = [reqs EXCEPT ![i].pc = "marked"]
        /\ UNCHANGED <<now, storeVars, rbacVars, calls, histVars>>

\* the third await when the storage is unavailable: markSsoTokenAsUsed rejects,
\* nothing is written, and the catch block answers
RedeemMarkFails(i) ==
    LET r == reqs[i]
    IN  /\ r.pc = "gotUser"
        /\ r.user # NoUser /\ r.user.isActive
        /\ reqs' = [reqs EXCEPT ![i] = Finish(r, RedeemCatch)]
        /\ UNCHANGED <<now, storeVars, rbacVars, calls, histVars>>

\* ... and the response: {valid: true, userData}
RedeemRespond(i) ==
    LET r == reqs[i]
    IN  /\ r.pc = "marked"
        /\ reqs' = [reqs EXCEPT ![i] = Finish(r, RedeemOk(r.user))]
        /\ succeeded' = succeeded \cup {r.token}
        /\ UNCHANGED <<now, storeVars, rbacVars, calls, loggedOut, issued, created, lastCall>>

\* the hourly timer's deleteExpiredSsoTokens
SweepSsoTokens ==
    /\ ssoTokens' = deleteExpiredSsoTokens
    /\ ssoTokens' # ssoTokens
    /\ UNCHANGED <<now, users, sessions, rbacVars, reqs, calls, histVars>>

\* ------------------------------------------------- login, logout, validate
IdleCall ==
    [kind |-> "none", pc |-> "idle", token |-> Garbage, session |-> NoSession,
     user |-> NoUser, resp |-> NoResp, afterLogout |-> FALSE, cause |-> "none"]

\* the connections session requests arrive on: two, so that requests can overlap
CallIds == {"c1", "c2"}

\* the response is sent and the locals are dropped
FinishCall(c, resp) ==
    [c EXCEPT !.pc = "done", !.resp = resp, !.session = NoSession, !.user = NoUser]

\* jwt.verify and the call of getSessionByToken, as authenticateToken and
\* POST /api/auth/validate both start; badToken is what the catch block answers
LookupSession(i, kind, token, badToken) ==
    LET c == [IdleCall EXCEPT !.kind = kind, !.token = token,
                              !.afterLogout = (token \in loggedOut)]
    IN  /\ calls[i].pc \in {"idle", "done"}
        /\ IF ~JwtVerifies(token)
           THEN /\ calls' = [calls EXCEPT ![i] = FinishCall(c, badToken)]
                /\ UNCHANGED sessions
           ELSE /\ calls' = [calls EXCEPT ![i] =
                      [c EXCEPT !.pc = "gotSession", !.session = getSessionByToken(token)]]
                /\ sessions' = SessionsAfterLookup(token)
        /\ UNCHANGED <<now, users, ssoTokens, rbacVars, reqs, histVars>>

\* the session check and the call of getUser; noSession is the 401 of a missing row
LookupUser(i, kind, noSession) ==
    LET c == calls[i]
    IN  /\ c.kind = kind /\ c.pc = "gotSession"
        /\ calls' = [calls EXCEPT ![i] =
              IF c.session = NoSession THEN FinishCall(c, noSession)
              ELSE [c EXCEPT !.pc = "gotUser", !.user = getUser(c.session.userId)]]
        /\ UNCHANGED <<now, storeVars, rbacVars, reqs, histVars>>

\* POST /api/auth/validate
ValidateStart(i, token) ==
    LookupSession(i, "validate", token, Resp(401, "Invalid token"))

ValidateGetUser(i) ==
    LookupUser(i, "validate", Resp(401, "Invalid session"))

\* const { password: _, ...userWithoutPassword } = user
WithoutPassword(user) == [f \in DOMAIN user \ {"password"} |-> user[f]]

\* res.json({ valid: true, user })
ValidResp(user) == [status |-> 200, message |-> "valid", user |-> user]

\* the last step of validate without the test of isActive
ValidateRespond_noActiveCheck(i) ==
    LET c == calls[i]
    IN  /\ c.kind = "validate" /\ c.pc = "gotUser"
        /\ calls' = [calls EXCEPT ![i] =
              IF c.user = NoUser
              THEN FinishCall(c, Resp(401, "User not found or inactive"))
              ELSE FinishCall(c, ValidResp(WithoutPassword(c.user)))]
        /\ UNCHANGED <<now, storeVars, rbacVars, reqs, histVars>>

\* the last step of validate with the stored user as it is
ValidateRespond_rawUser(i) ==
    LET c == calls[i]
    IN  /\ c.kind = "validate" /\ c.pc = "gotUser"
        /\ calls' = [calls EXCEPT ![i] =
              IF c.user = NoUser \/ ~c.user.isActive
              THEN FinishCall(c, Resp(401, "User not found or inactive"))
              ELSE FinishCall(c, ValidResp(c.user))]
        /\ UNCHANGED <<now, storeVars, rbacVars, reqs, histVars>>

ValidateRespond(i) ==
    LET c == calls[i]
    IN  /\ c.kind = "validate" /\ c.pc = "gotUser"
        /\ calls' = [calls EXCEPT ![i] =
              IF c.user = NoUser \/ ~c.user.isActive
              THEN FinishCall(c, Resp(401, "User not found or inactive"))
              ELSE FinishCall(c, ValidResp(WithoutPassword(c.user)))]
        /\ UNCHANGED <<now, storeVars, rbacVars, reqs, histVars>>

\* POST /api/auth/logout: authenticateToken ...
LogoutStart(i, token) ==
    LookupSession(i, "logout", token, Resp(403, "Invalid token"))

LogoutGetUser(i) ==
    LookupUser(i, "logout", Resp(401, "Invalid or expired session"))

\* ... its user check, then the handler's deleteSession(req.token)
LogoutDelete(i) ==
    LET c == calls[i]
    IN  /\ c.kind = "logout" /\ c.pc = "gotUser"
        /\ IF c.user = NoUser \/ ~c.user.isActive
           THEN /\ calls' = [calls EXCEPT ![i] =
                      FinishCall(c, Resp(401, "User not found or inactive"))]
                /\ UNCHANGED sessions
           ELSE /\ calls' = [calls EXCEPT ![i].pc = "deleted"]
                /\ sessions' = deleteSession(c.token)
        /\ UNCHANGED <<now, users, ssoTokens, rbacVars, reqs, histVars>>

\* ... and the response, after logUserActivity
LogoutRespond(i) ==
    LET c == calls[i]
    IN  /\ c.kind = "logout" /\ c.pc = "deleted"
        /\ calls' = [calls EXCEPT ![i] = FinishCall(c, Resp(200, "Logged out successfully"))]
        /\ loggedOut' = loggedOut \cup {c.token}
        /\ UNCHANGED <<now, storeVars, rbacVars, reqs, succeeded, issued, created, lastCall>>

\* the audit log accepts the entry: logUserActivity returns
logUserActivity == TRUE

\* the 401 of a refused login
InvalidCredentials == Resp(401, "Invalid credentials")

\* the first step of login with a response for each reason
LoginLookup_leaky(i, userId, passwordOk) ==
    LET user == getUser(userId)
        cause == IF user = NoUser THEN "unknown"
                 ELSE IF ~user.isActive THEN "inactive"
                 ELSE IF ~passwordOk THEN "password" ELSE "none"
        c == [IdleCall EXCEPT !.kind = "login", !.cause = cause]
    IN  /\ calls[i].pc \in {"idle", "done"}
        /\ calls' = [calls EXCEPT ![i] =
              IF user = NoUser THEN FinishCall(c, Resp(401, "Invalid credentials"))
              ELSE IF ~user.isActive THEN FinishCall(c, Resp(401, "Account is inactive"))
              ELSE IF ~passwordOk THEN FinishCall(c, Resp(401, "Invalid password"))
              ELSE [c EXCEPT !.pc = "authed", !.user = user]]
        /\ UNCHANGED <<now, storeVars, rbacVars, reqs, histVars>>

\* POST /api/auth/login: getUserByEmail, the active check, bcrypt.compare;
\* cause records why a login was refused
LoginLookup(i, userId, passwordOk) ==
    LET user == getUser(userId)
        cause == IF user = NoUser THEN "unknown"
                 ELSE IF ~user.isActive THEN "inactive"
                 ELSE IF ~passwordOk THEN "password" ELSE "none"
        c == [IdleCall EXCEPT !.kind = "login", !.cause = cause]
    IN  /\ calls[i].pc \in {"idle", "done"}
        /\ calls' = [calls EXCEPT ![i] =
              IF user = NoUser THEN FinishCall(c, InvalidCredentials)
              ELSE IF ~user.isActive
              THEN (IF logUserActivity THEN FinishCall(c, InvalidCredentials)
                    ELSE FinishCall(c, Resp(500, "Internal server error")))
              ELSE IF ~passwordOk
              THEN (IF logUserActivity THEN FinishCall(c, InvalidCredentials)
                    ELSE FinishCall(c, Resp(500, "Internal server error")))
              ELSE [c EXCEPT !.pc = "authed", !.user = user]]
        /\ UNCHANGED <<now, storeVars, rbacVars, reqs, histVars>>

\* ... jwt.sign, createSession and the response {user, token, expiresAt}
LoginCreate(i) ==
    LET c == calls[i]
        token == SignSession(c.user)
    IN  /\ c.kind = "login" /\ c.pc = "authed"
        /\ Cardinality(issued \cup {token}) <= MaxSessions
        /\ sessions' = createSession(token, c.user.id, now + SessionTtl)
        /\ calls' = [calls EXCEPT ![i] = [FinishCall(c, Resp(200, "token")) EXCEPT !.token = token]]
        /\ issued' = issued \cup {token}
        /\ UNCHANGED <<now, users, ssoTokens, rbacVars, reqs, succeeded, loggedOut, created, lastCall>>

\* the hourly timer's deleteExpiredSessions
SweepSessions ==
    /\ sessions' = deleteExpiredSessions
    /\ sessions' # sessions
    /\ UNCHANGED <<now, users, ssoTokens, rbacVars, reqs, calls, histVars>>

\* ------------------------------------------------------------------- users
\* updateUser(id, updates) behind PUT /api/admin/users/:id: {...user, ...updates}
updateUser(id, updates) ==
    /\ id \in DOMAIN users
    /\ users' = [users EXCEPT ![id] =
          [f \in DOMAIN users[id] |-> IF f \in DOMAIN updates THEN updates[f] ELSE users[id][f]]]
    /\ users' # users
    /\ lastCall' = NoCall
    /\ UNCHANGED <<now, sessions, ssoTokens, rbacVars, reqs, calls,
                   succeeded, loggedOut, issued, created>>

\* deleteUser(id) behind DELETE /api/admin/users/:id, which refuses the caller's own id
deleteUser(caller, id) ==
    /\ caller \in DOMAIN users
    /\ users[caller].isActive /\ users[caller].role = "administrator"
    /\ id # caller
    /\ id \in DOMAIN users
    /\ users' = Remove(users, {id})
    /\ UNCHANGED <<now, sessions, ssoTokens, rbacVars, reqs, calls, histVars>>

\* the ids randomUUID() gives the users created after boot
NewUserSeq == <<"u3", "u4">>
NewUserIds == {NewUserSeq[k] : k \in 1..Len(NewUserSeq)}

\* the addresses a request body can carry
Emails == {"a@x", "b@x", "c@x"}

\* randomUUID(): an id no user has
FreshUserId ==
    NewUserSeq[CHOOSE k \in 1..Len(NewUserSeq) :
                  /\ NewUserSeq[k] \notin DOMAIN users
                  /\ \A j \in 1..(k - 1) : NewUserSeq[j] \in DOMAIN users]

\* getUserByEmail(email): Array.from(users.values()).find(user => user.email === email)
getUserByEmail(email) ==
    IF \E id \in DOMAIN users : users[id].email = email
    THEN getUser(CHOOSE id \in DOMAIN users : users[id].email = email)
    ELSE NoUser

\* POST /api/admin/users behind authenticateToken and requireAdmin, up to the
\* await inside createUser: the existence check, then bcrypt.hash is started
CreateUserCheck(i, caller, email) ==
    LET c == [IdleCall EXCEPT !.kind = "createUser"]
    IN  /\ caller \in DOMAIN users
        /\ users[caller].isActive /\ users[caller].role = "administrator"
        /\ calls[i].pc \in {"idle", "done"}
        /\ calls' = [calls EXCEPT ![i] =
              IF getUserByEmail(email) # NoUser
              THEN FinishCall(c, Resp(400, "User with this email already exists"))
              ELSE [c EXCEPT !.pc = "hashing",
                             !.user = [id |-> "none", role |-> "viewer", isActive |-> TRUE,
                                       password |-> "hash", email |-> email]]]
        /\ UNCHANGED <<now, storeVars, rbacVars, reqs, histVars>>

\* ... after bcrypt.hash: this.users.set(id, user) and the 201
CreateUserInsert(i) ==
    LET c == calls[i]
    IN  /\ c.kind = "createUser" /\ c.pc = "hashing"
        /\ NewUserIds \ DOMAIN users # {}
        /\ users' = Put(users, FreshUserId, [f \in DOMAIN c.user \ {"id"} |-> c.user[f]])
        /\ calls' = [calls EXCEPT ![i] = FinishCall(c, Resp(201, "created"))]
        /\ UNCHANGED <<now, sessions, ssoTokens, rbacVars, reqs, histVars>>

\* ------------------------------------------- permission checks, await by await
\* a permission lookup in flight: todo are the roles whose permissions are still
\* to be read, acc the ids in allPermissions; before records, for each role
\* getUserRoles returned, the permissions it had when the lookup began
IdleLookup ==
    [kind |-> "none", pc |-> "idle", userId |-> "none", resource |-> "none", action |-> "none",
     user |-> NoUser, todo |-> <<>>, acc |-> {}, ret |-> {}, before |-> <<>>]

\* what the roles of userId lead to at this moment, role by role
PermissionsByRole(userId) == [r \in getUserRoles(userId) |-> getRolePermissions(r)]

\* getUserPermissions(userId), up to its first await: the call of getUserRoles
GetUserPermissionsStart(i, userId) ==
    /\ calls[i].pc \in {"idle", "done"}
    /\ calls' = [calls EXCEPT ![i] =
          [IdleLookup EXCEPT !.kind = "getUserPermissions", !.pc = "loop", !.userId = userId,
                             !.todo = SetToSeq(getUserRoles(userId)),
                             !.before = PermissionsByRole(userId)]]
    /\ UNCHANGED <<now, storeVars, rbacVars, reqs, histVars>>

\* userHasPermission(userId, resource, action), up to its first await: the call of getUser
UserHasPermissionStart(i, userId, resource, action) ==
    /\ calls[i].pc \in {"idle", "done"}
    /\ calls' = [calls EXCEPT ![i] =
          [IdleLookup EXCEPT !.kind = "userHasPermission", !.pc = "user", !.userId = userId,
                             !.resource = resource, !.action = action,
                             !.user = getUser(userId),
                             !.before = PermissionsByRole(userId)]]
    /\ UNCHANGED <<now, storeVars, rbacVars, reqs, histVars>>

\* ... the user checks, then getUserPermissions is entered and calls getUserRoles
UserHasPermissionRoles(i) ==
    LET c == calls[i]
    IN  /\ c.kind = "userHasPermission" /\ c.pc = "user"
        /\ calls' = [calls EXCEPT ![i] =
              IF c.user = NoUser \/ ~c.user.isActive THEN [c EXCEPT !.pc = "done", !.ret = FALSE]
              ELSE IF c.user.role = "administrator" THEN [c EXCEPT !.pc = "done", !.ret = TRUE]
              ELSE [c EXCEPT !.pc = "loop", !.todo = SetToSeq(getUserRoles(c.userId))]]
        /\ UNCHANGED <<now, storeVars, rbacVars, reqs, histVars>>

\* one turn of `for (const role of userRoles)`: the call of getRolePermissions(role.id)
\* and the merge of what it returns; after the last turn, the return
LookupStep(i) ==
    LET c == calls[i]
    IN  /\ c.kind \in {"getUserPermissions", "userHasPermission"} /\ c.pc = "loop"
        /\ calls' = [calls EXCEPT ![i] =
              IF c.todo # <<>>
              THEN [c EXCEPT !.todo = Tail(c.todo),
                             !.acc = c.acc \cup getRolePermissions(Head(c.todo))]
              ELSE IF c.kind = "getUserPermissions"
                   THEN [c EXCEPT !.pc = "done", !.ret = c.acc]
                   ELSE [c EXCEPT !.pc = "done",
                                  !.ret = \E id \in c.acc :
                                              /\ permissions[id].resource = c.resource
                                              /\ permissions[id].action = c.action]]
        /\ UNCHANGED <<now, storeVars, rbacVars, reqs, histVars>>

\* the clock
Tick ==
    /\ now < MaxTime
    /\ now' = now + 1
    /\ UNCHANGED <<storeVars, rbacVars, reqs, calls, histVars>>

\* ------------------------------------------------------------ initial state
\* initializeRoles, initializePermissions and the administrator's UserRole edge
InitRbac ==
    /\ roles = [id \in 1..Len(SystemRoles) |-> [name |-> SystemRoles[id], isSystem |-> TRUE]]
    /\ permissions = [id \in 1..Len(BootPermissions) |-> BootPermissions[id]]
    /\ rolePermissions = [e \in RoleIds \X PermIds |->
                             IF e[1] = 1 /\ e[2] \in 1..Len(BootPermissions) THEN 1 ELSE 0]
    /\ userRoles = [e \in UserIds \X RoleIds \X UserIds |->
                       IF e = <<"u1", 1, "u1">> THEN 1 ELSE 0]

InitIdle ==
    /\ reqs = [i \in Slots |-> IdleReq]
    /\ calls = [i \in CallIds |-> IdleCall]
    /\ succeeded = {}
    /\ loggedOut = {}
    /\ issued = {}
    /\ created = {}
    /\ lastCall = NoCall

\* ------------------------------------------------------------------- boot
\* the constructor's new Map() for every table
InitBoot ==
    /\ now = 0
    /\ users = [id \in {} |-> NoUser]
    /\ sessions = [t \in {} |-> NoSession]
    /\ ssoTokens = [t \in {} |-> NoRow]
    /\ roles = [id \in {} |-> [name |-> "none", isSystem |-> FALSE]]
    /\ permissions = [id \in {} |-> [resource |-> "none", action |-> "none"]]
    /\ rolePermissions = [e \in RoleIds \X PermIds |-> 0]
    /\ userRoles = [e \in UserIds \X RoleIds \X UserIds |-> 0]
    /\ InitIdle

\* roles.find(r => r.name === 'administrator')
AdminRoleIds == {id \in DOMAIN roles : roles[id].name = "administrator"}

\* initializeRoles(): the four system roles
initializeRoles ==
    /\ DOMAIN roles = {} /\ DOMAIN permissions = {} /\ DOMAIN users = {}
    /\ roles' = [id \in 1..Len(SystemRoles) |-> [name |-> SystemRoles[id], isSystem |-> TRUE]]
    /\ UNCHANGED <<now, storeVars, permissions, rolePermissions, userRoles, reqs, calls, histVars>>

\* initializePermissions without the grant to the administrator role
initializePermissions_noGrant ==
    /\ DOMAIN roles # {} /\ DOMAIN permissions = {} /\ DOMAIN users = {}
    /\ permissions' = [id \in 1..Len(BootPermissions) |-> BootPermissions[id]]
    /\ UNCHANGED <<now, storeVars, roles, rolePermissions, userRoles, reqs, calls, histVars>>

\* initializePermissions(): the boot permissions, each granted to the administrator role
initializePermissions ==
    /\ DOMAIN roles # {} /\ DOMAIN permissions = {} /\ DOMAIN users = {}
    /\ permissions' = [id \in 1..Len(BootPermissions) |-> BootPermissions[id]]
    /\ rolePermissions' = [e \in RoleIds \X PermIds |->
              IF e[1] \in AdminRoleIds /\ e[2] \in 1..Len(BootPermissions)
              THEN rolePermissions[e] + 1 ELSE rolePermissions[e]]
    /\ UNCHANGED <<now, storeVars, roles, userRoles, reqs, calls, histVars>>

\* initializeDefaultData() after bcrypt.hash: the administrator and its role edge
initializeDefaultData ==
    /\ DOMAIN permissions # {} /\ DOMAIN users = {}
    /\ users' = [id \in {"u1"} |-> [role |-> "administrator", isActive |-> TRUE, password |-> "hash",
                                email |-> "a@x"]]
    /\ userRoles' = [e \in UserIds \X RoleIds \X UserIds |->
              IF e[1] = "u1" /\ e[2] \in AdminRoleIds /\ e[3] = "u1"
              THEN userRoles[e] + 1 ELSE userRoles[e]]
    /\ UNCHANGED <<now, sessions, ssoTokens, roles, permissions, rolePermissions,
                   reqs, calls, histVars>>

\* the state the constructor leaves: the administrator, no session, no token
Init ==
    /\ now = 0
    /\ users = [id \in {"u1"} |-> [role |-> "administrator", isActive |-> TRUE, password |-> "hash",
                                email |-> "a@x"]]
    /\ sessions = [t \in {} |-> NoSession]
    /\ ssoTokens = [t \in {} |-> NoRow]
    /\ InitRbac
    /\ InitIdle

\* ... after createUser(u2, manager)
TwoUsers ==
    [id \in UserIds |-> IF id = "u1" THEN [role |-> "administrator", isActive |-> TRUE, password |-> "hash",
                                email |-> "a@x"]
                                     ELSE [role |-> "manager", isActive |-> TRUE, password |-> "hash",
                                email |-> "b@x"]]

\* ... after createUser(u2), assignPermissionToRole(manager, inventario.read),
\* assignRoleToUser(u2, manager, u1) and the login of both users at second 0
InitSso ==
    /\ now = 0
    /\ users = TwoUsers
    /\ sessions = [t \in {SessionJwt(u, TwoUsers[u].role, 0) : u \in UserIds} |->
                      [userId |-> t.userId, expiresAt |-> SessionTtl]]
    /\ ssoTokens = [t \in {} |-> NoRow]
    /\ roles = [id \in 1..Len(SystemRoles) |-> [name |-> SystemRoles[id], isSystem |-> TRUE]]
    /\ permissions = [id \in 1..Len(BootPermissions) |-> BootPermissions[id]]
    /\ rolePermissions = [e \in RoleIds \X PermIds |->
                             IF \/ e[1] = 1 /\ e[2] \in 1..Len(BootPermissions)
                                \/ e = <<2, 1>>
                             THEN 1 ELSE 0]
    /\ userRoles = [e \in UserIds \X RoleIds \X UserIds |->
                       IF e \in {<<"u1", 1, "u1">>, <<"u2", 2, "u1">>} THEN 1 ELSE 0]
    /\ InitIdle

InitSession ==
    /\ now = 0
    /\ users = [id \in {"u1"} |-> [role |-> "administrator", isActive |-> TRUE, password |-> "hash",
                                email |-> "a@x"]]
    /\ sessions = [t \in {} |-> NoSession]
    /\ ssoTokens = [t \in {} |-> NoRow]
    /\ InitRbac
    /\ InitIdle

\* ----------------------------------------------------------- specifications
\* the SSO broker: mint, redeem, sweep, and the administration of users
NextSso ==
    \/ Tick
    \/ \E bearer \in DOMAIN sessions \cup loggedOut, m \in ModuleIds \cup {"m9"} :
          MintSso(bearer, m)
    \/ \E t \in {b \in DOMAIN sessions : b.userId = "u1"} : LogoutStart("c1", t)
    \/ LogoutGetUser("c1")
    \/ LogoutDelete("c1")
    \/ LogoutRespond("c1")
    \/ \E i \in Slots, m \in ModuleIds :
          \E t \in DOMAIN ssoTokens \cup {SessionJwt("u1", "administrator", 0), Garbage} :
              RedeemValidate(i, t, m)
    \/ \E i \in Slots : RedeemGetUser(i)
    \/ \E i \in Slots : RedeemMark(i)
    \/ \E i \in Slots : RedeemMarkFails(i)
    \/ \E i \in Slots : RedeemRespond(i)
    \/ SweepSsoTokens
    \/ \E b \in BOOLEAN : updateUser("u2", [isActive |-> b])
    \/ \E caller \in UserIds, u \in UserIds : deleteUser(caller, u)

SpecSso == InitSso /\ [][NextSso]_vars

\* the primary session manager: login, logout, validate, sweep
NextSession ==
    \/ Tick
    \/ \E i \in CallIds, u \in UserIds, ok \in BOOLEAN : LoginLookup(i, u, ok)
    \/ \E i \in CallIds : LoginCreate(i)
    \/ \E i \in CallIds, t \in issued \cup {Garbage} : LogoutStart(i, t)
    \/ \E i \in CallIds : LogoutGetUser(i)
    \/ \E i \in CallIds : LogoutDelete(i)
    \/ \E i \in CallIds : LogoutRespond(i)
    \/ \E i \in CallIds, t \in issued \cup {Garbage} : ValidateStart(i, t)
    \/ \E i \in CallIds : ValidateGetUser(i)
    \/ \E i \in CallIds : ValidateRespond(i)
    \/ SweepSessions
    \/ \E u \in UserIds, b \in BOOLEAN : updateUser(u, [isActive |-> b])

SpecSession == InitSession /\ [][NextSession]_vars

\* the roles table and its cascade: createRole, updateRole, deleteRole
RoleUpdates == {[name |-> "renamed"], [isSystem |-> FALSE], [isSystem |-> TRUE]}

NextRoles ==
    \/ createRole("auditor")
    \/ \E id \in RoleIds \ {2, 3, 4}, updates \in RoleUpdates : updateRole(id, updates)
    \/ \E id \in RoleIds \ {2, 3} : deleteRole(id)
    \/ \E r \in DOMAIN roles \ {2, 3, 4} : assignPermissionToRole(r, 1)
    \/ \E r \in DOMAIN roles \ {2, 3, 4} : assignRoleToUser("u1", r, "u1")

SpecRoles == Init /\ [][NextRoles]_vars

\* the permission graph and the authorization queries over it
NextAuthz ==
    \/ createPermission("inventario", "read")
    \/ \E r \in {1, 4}, p \in DOMAIN permissions : assignPermissionToRole(r, p)
    \/ \E r \in {1, 4}, p \in DOMAIN permissions : removePermissionFromRole(r, p)
    \/ \E r \in {1, 4}, by \in UserIds : assignRoleToUser("u1", r, by)
    \/ \E r \in {1, 4} : removeRoleFromUser("u1", r)
    \/ \E role \in {"administrator", "viewer"} : updateUser("u1", [role |-> role])
    \/ \E b \in BOOLEAN : updateUser("u1", [isActive |-> b])

SpecAuthz == Init /\ [][NextAuthz]_vars

\* the guards of the admin routes, over a changing permission graph; req.user is
\* the stored user as authenticateToken read it
NextGuards ==
    \/ \E resource \in {"system.roles", "inventario"}, throws \in BOOLEAN :
          /\ "u1" \in DOMAIN users
          /\ requirePermission("u1", users["u1"].role, resource, "read", throws)
    \/ \E roleName \in {"administrator", "viewer"}, throws \in BOOLEAN :
          /\ "u1" \in DOMAIN users
          /\ requireRole("u1", users["u1"].role, roleName, throws)
    \/ \E p \in DOMAIN permissions : assignPermissionToRole(4, p)
    \/ \E p \in DOMAIN permissions : removePermissionFromRole(4, p)
    \/ \E r \in {1, 4} : assignRoleToUser("u1", r, "u1")
    \/ \E r \in {1, 4} : removeRoleFromUser("u1", r)
    \/ \E role \in {"administrator", "viewer"} : updateUser("u1", [role |-> role])
    \/ \E b \in BOOLEAN : updateUser("u1", [isActive |-> b])

SpecGuards == Init /\ [][NextGuards]_vars

\* the start of the process; the RBAC API is behind authenticateToken, which
\* lets nothing through while there is no user
NextBoot ==
    \/ initializeRoles
    \/ initializePermissions
    \/ initializeDefaultData
    \/ (DOMAIN users # {} /\ NextAuthz)

SpecBoot == InitBoot /\ [][NextBoot]_vars

\* the user administration routes, requests overlapping
NextUsers ==
    \/ \E i \in CallIds, e \in Emails : CreateUserCheck(i, "u1", e)
    \/ \E i \in CallIds : CreateUserInsert(i)
    \/ \E id \in DOMAIN users, e \in Emails : updateUser(id, [email |-> e])
    \/ \E id \in DOMAIN users \ {"u1"}, b \in BOOLEAN : updateUser(id, [isActive |-> b])
    \/ \E id \in DOMAIN users : deleteUser("u1", id)

SpecUsers == InitSession /\ [][NextUsers]_vars

\* a manager who also holds every custom role, each custom role with both boot
\* permissions: the state after createRole, assignPermissionToRole, assignRoleToUser
InitLookups ==
    /\ now = 0
    /\ users = TwoUsers
    /\ sessions = [t \in {} |-> NoSession]
    /\ ssoTokens = [t \in {} |-> NoRow]
    /\ roles = [id \in RoleIds |->
                   IF id <= Len(SystemRoles) THEN [name |-> SystemRoles[id], isSystem |-> TRUE]
                   ELSE [name |-> "custom", isSystem |-> FALSE]]
    /\ permissions = [id \in 1..Len(BootPermissions) |-> BootPermissions[id]]
    /\ rolePermissions = [e \in RoleIds \X PermIds |->
                             IF /\ e[2] \in 1..Len(BootPermissions)
                                /\ e[1] = 1 \/ e[1] > Len(SystemRoles)
                             THEN 1 ELSE 0]
    /\ userRoles = [e \in UserIds \X RoleIds \X UserIds |->
                       IF \/ e = <<"u1", 1, "u1">>
                          \/ e[1] = "u2" /\ e[2] \in {2} \cup (RoleIds \ (1..Len(SystemRoles))) /\ e[3] = "u1"
                       THEN 1 ELSE 0]
    /\ reqs = [i \in Slots |-> IdleReq]
    /\ calls = [i \in CallIds |-> IdleCall]
    /\ succeeded = {}
    /\ loggedOut = {}
    /\ issued = {}
    /\ created = RoleIds \ (1..Len(SystemRoles))
    /\ lastCall = NoCall

\* permission lookups overlapping with role deletions
NextLookups ==
    \/ \E i \in CallIds, u \in UserIds : GetUserPermissionsStart(i, u)
    \/ \E i \in CallIds, u \in UserIds, a \in Actions : UserHasPermissionStart(i, u, "inventario", a)
    \/ \E i \in CallIds : UserHasPermissionRoles(i)
    \/ \E i \in CallIds : LookupStep(i)
    \/ \E id \in RoleIds \ {1, 3, 4} : deleteRole(id)

SpecLookups == InitLookups /\ [][NextLookups]_vars

\* requests with tokens issued before a change of the user's primary role
NextFresh ==
    \/ \E bearer \in DOMAIN sessions : AdminRequest(bearer)
    \/ \E bearer \in DOMAIN sessions : PermissionRequest(bearer, "compras", "read")
    \/ \E u \in UserIds, role \in {"administrator", "viewer"} : updateUser(u, [role |-> role])
    \/ \E bearer \in DOMAIN sessions : MintSso(bearer, "m1")
    \/ \E t \in DOMAIN ssoTokens : RedeemValidate("r1", t, "m1")
    \/ RedeemGetUser("r1")
    \/ RedeemMark("r1")
    \/ RedeemRespond("r1")

SpecFresh == InitSso /\ [][NextFresh]_vars

\* the whole program
Next == NextSso \/ NextSession \/ NextRoles \/ NextAuthz \/ NextBoot \/ NextGuards \/ NextUsers \/ NextLookups \/ NextFresh

Spec == Init /\ [][Next]_vars

\* ------------------------------------------------------- SSO: properties
Succeeded(i) == reqs[i].pc = "done" /\ reqs[i].resp.status = 200

UserInactive == Resp(401, "User not found or inactive")

\* C1: of the redeem requests for one SSO token, however they interleave at the
\* handler's awaits, at most one reports success
C1_ExactlyOneRedeemSucceeds ==
    \A i, j \in Slots :
        (i # j /\ reqs[i].token = reqs[j].token) => ~(Succeeded(i) /\ Succeeded(j))

C4_ModuleScoped ==
    \A i \in Slots :
        (/\ reqs[i].pc = "done"
         /\ reqs[i].token.type = "sso"
         /\ reqs[i].token.moduleId # reqs[i].moduleId) => reqs[i].resp.status # 200

\* module B was named for a token of module A that is unexpired and unredeemed
\* and whose user is active
C4_Witness ==
    \E i \in Slots :
        LET t == reqs[i].token
        IN  /\ reqs[i].pc = "done" /\ t.type = "sso" /\ t.moduleId # reqs[i].moduleId
            /\ t \in DOMAIN ssoTokens /\ ssoTokens[t].usedAt = Null
            /\ now < ssoTokens[t].expiresAt
            /\ getUser(t.userId) # NoUser /\ getUser(t.userId).isActive
            /\ reqs[i].resp = Resp(401, "Invalid SSO token")

\* C5: a redeem that starts when the token's expiry has passed is answered at
\* once with the catch block's 401, which does not depend on the row's usedAt
C5_ExpiredIsTokenInvalid ==
    [][\A i \in Slots :
          (/\ reqs[i].pc = "idle" /\ reqs'[i].pc # "idle"
           /\ reqs'[i].token.type = "sso"
           /\ now >= JwtExp(reqs'[i].token))
          => (reqs'[i].pc = "done" /\ reqs'[i].resp = RedeemCatch)]_vars

\* an expired token that was redeemed earlier has been refused with that 401
C5_Witness ==
    \E i \in Slots :
        LET t == reqs[i].token
        IN  /\ reqs[i].pc = "done" /\ t.type = "sso" /\ reqs[i].resp = RedeemCatch
            /\ now >= JwtExp(t)
            /\ t \in DOMAIN ssoTokens /\ ssoTokens[t].usedAt # Null

\* C6: a redeem of a valid token that finds its user deleted or deactivated
\* fails with UserInactive
C6_UserRereadAtRedeem ==
    \A i \in Slots :
        (reqs[i].pc = "done" /\ reqs[i].userGone) => reqs[i].resp = UserInactive

\* u2 was deactivated after the mint, and the redeem of u2's token has failed
C6_Witness ==
    \E i \in Slots :
        /\ reqs[i].pc = "done" /\ reqs[i].userGone /\ reqs[i].resp = UserInactive
        /\ reqs[i].token.userId = "u2"
        /\ "u2" \in DOMAIN users /\ ~users["u2"].isActive
        /\ reqs[i].token \in DOMAIN ssoTokens /\ ssoTokens[reqs[i].token].usedAt = Null

\* --------------------------------------------------- sessions: properties
\* C3: a validate that starts after a logout of the same token has answered fails
C3_ValidateFailsAfterLogout ==
    \A c \in CallIds :
        (calls[c].kind = "validate" /\ calls[c].pc = "done" /\ calls[c].afterLogout)
            => calls[c].resp.status # 200

\* ------------------------------------------------------- RBAC: properties
\* C7 as stated: every user whose primary role is administrator has every permission
C7_AdminAlwaysAllowed ==
    \A u \in DOMAIN users : users[u].role = "administrator" =>
        \A resource \in Resources, action \in Actions : userHasPermission(u, resource, action)

\* C7, amended: every active user whose primary role is administrator has every
\* permission, whatever edges the RBAC graph holds
C7_ActiveAdminAlwaysAllowed ==
    \A u \in DOMAIN users : (users[u].role = "administrator" /\ users[u].isActive) =>
        \A resource \in Resources, action \in Actions : userHasPermission(u, resource, action)

\* an active administrator, the administrator role without a permission edge,
\* the user without a role edge
C7_Witness ==
    /\ users["u1"].role = "administrator" /\ users["u1"].isActive
    /\ \A p \in PermIds : rolePermissions[<<1, p>>] = 0
    /\ \A r \in RoleIds, by \in UserIds : userRoles[<<"u1", r, by>>] = 0
    /\ userHasPermission("u1", "compras", "write")

\* C8: getUserPermissions(u) is the union of getRolePermissions over the user's
\* roles, and no two of its permissions have the same (resource, action)
C8_PermissionUnion ==
    \A u \in UserIds :
        LET ups == getUserPermissions(u)
        IN  /\ DOMAIN ups = UNION {getRolePermissions(r) : r \in getUserRoles(u)}
            /\ \A p \in DOMAIN ups : ups[p] = permissions[p]
            /\ \A p, q \in DOMAIN ups :
                   (ups[p].resource = ups[q].resource /\ ups[p].action = ups[q].action) => p = q

\* C9: a deleteRole of a system role, or of an id no role has, returns false
\* and leaves the roles and both edge tables as they were
C9_DeleteRoleRefused ==
    [][(/\ lastCall'.op = "deleteRole"
        /\ (lastCall'.id \notin DOMAIN roles \/ roles[lastCall'.id].isSystem))
       => (/\ lastCall'.ret = FALSE
           /\ UNCHANGED <<roles, rolePermissions, userRoles>>)]_vars

\* deleteRole of the administrator role has answered false; the role, its
\* permission edge and the user's edge to it are there
C9_Witness ==
    /\ lastCall = Called("deleteRole", 1, FALSE)
    /\ 1 \in DOMAIN roles /\ roles[1].isSystem
    /\ rolePermissions[<<1, 1>>] > 0
    /\ userRoles[<<"u1", 1, "u1">>] > 0

\* C10: the four built-in roles exist with their names and isSystem = true, and
\* no role that createRole made has isSystem = true
C10_SystemRolesImmutable ==
    /\ \A id \in 1..Len(SystemRoles) :
          /\ id \in DOMAIN roles
          /\ roles[id].name = SystemRoles[id]
          /\ roles[id].isSystem
    /\ \A id \in created : id \in DOMAIN roles => ~roles[id].isSystem

\* C11: when deleteRole(id) returns true, the role is gone, no RolePermission
\* and no UserRole edge names it, and the edges of every other role are as before
C11_DeleteRoleCascades ==
    [][(lastCall'.op = "deleteRole" /\ lastCall'.ret = TRUE) =>
          LET id == lastCall'.id
          IN  /\ id \in DOMAIN roles /\ id \notin DOMAIN roles'
              /\ \A e \in DOMAIN rolePermissions :
                    rolePermissions'[e] = IF e[1] = id THEN 0 ELSE rolePermissions[e]
              /\ \A e \in DOMAIN userRoles :
                    userRoles'[e] = IF e[2] = id THEN 0 ELSE userRoles[e]
              /\ \A r \in DOMAIN roles \ {id} : r \in DOMAIN roles' /\ roles'[r] = roles[r]]_vars

\* a role made by createRole has been deleted, and the administrator role's
\* edges are still there
C11_Witness ==
    /\ lastCall.op = "deleteRole" /\ lastCall.ret = TRUE
    /\ lastCall.id \in created /\ lastCall.id \notin DOMAIN roles
    /\ \A p \in PermIds : rolePermissions[<<lastCall.id, p>>] = 0
    /\ \A u \in UserIds, by \in UserIds : userRoles[<<u, lastCall.id, by>>] = 0
    /\ rolePermissions[<<1, 1>>] > 0 /\ userRoles[<<"u1", 1, "u1">>] > 0

\* C12: no (roleId, permissionId) pair and no (userId, roleId) pair has more than
\* one edge; an assignment of a pair that is present changes nothing and returns
\* the edge that is there, for a UserRole with the assignedBy it was made with
C12_NoDuplicateEdges ==
    /\ [](/\ \A e \in DOMAIN rolePermissions : rolePermissions[e] <= 1
          /\ \A e \in DOMAIN userRoles : userRoles[e] <= 1
          /\ \A u \in UserIds, r \in RoleIds :
                Cardinality({by \in UserIds : userRoles[<<u, r, by>>] > 0}) <= 1)
    /\ [][/\ (/\ lastCall'.op = "assignRoleToUser"
              /\ \E by \in UserIds : userRoles[<<lastCall'.userId, lastCall'.id, by>>] > 0)
             => (/\ userRoles' = userRoles
                 /\ userRoles[<<lastCall'.userId, lastCall'.id, lastCall'.assignedBy>>] > 0)
          /\ (/\ lastCall'.op = "assignPermissionToRole"
              /\ rolePermissions[<<lastCall'.id, lastCall'.permissionId>>] > 0)
             => rolePermissions' = rolePermissions]_vars

\* an assignment by u2 of a pair that u1 had assigned has returned u1's edge
C12_Witness ==
    /\ lastCall.op = "assignRoleToUser"
    /\ lastCall.requestedBy = "u2" /\ lastCall.assignedBy = "u1"
    /\ userRoles[<<lastCall.userId, lastCall.id, "u1">>] = 1
    /\ userRoles[<<lastCall.userId, lastCall.id, "u2">>] = 0

\* C13: the step that completes initialization leaves exactly the four system
\* roles, each with isSystem = true, and an edge from the administrator role to
\* every permission there is
C13_BootstrapComplete ==
    [][(DOMAIN users = {} /\ DOMAIN users' # {}) =>
          /\ DOMAIN roles' = 1..Len(SystemRoles)
          /\ \A id \in DOMAIN roles' :
                roles'[id] = [name |-> SystemRoles[id], isSystem |-> TRUE]
          /\ DOMAIN permissions' # {}
          /\ \A p \in DOMAIN permissions' :
                \E r \in DOMAIN roles' :
                    roles'[r].name = "administrator" /\ rolePermissions'[<<r, p>>] > 0]_vars

\* initialization has completed and nothing has been called yet
C13_Witness ==
    /\ DOMAIN users = {"u1"} /\ lastCall = NoCall
    /\ users["u1"] = [role |-> "administrator", isActive |-> TRUE, password |-> "hash",
                                email |-> "a@x"]
    /\ DOMAIN roles = 1..Len(SystemRoles)
    /\ permissions = [id \in 1..Len(BootPermissions) |-> BootPermissions[id]]
    /\ \A p \in DOMAIN permissions : rolePermissions[<<1, p>>] = 1
    /\ userRoles[<<"u1", 1, "u1">>] = 1

\* the decision hasPermission is to make, read off the tables
ReferenceDecision(u, resource, action) ==
    IF u \notin DOMAIN users THEN FALSE
    ELSE IF ~users[u].isActive THEN FALSE
    ELSE IF users[u].role = "administrator" THEN TRUE
    ELSE \E r \in DOMAIN roles, p \in DOMAIN permissions, by \in UserIds :
            /\ userRoles[<<u, r, by>>] > 0
            /\ rolePermissions[<<r, p>>] > 0
            /\ permissions[p] = [resource |-> resource, action |-> action]

\* C14: userHasPermission agrees with the reference decision for every user,
\* resource and action: false for a missing or inactive user, true for an active
\* administrator, else true exactly when a permission of the user has that
\* resource and that action
C14_MatchesReference ==
    \A u \in UserIds, resource \in Resources, action \in Actions :
        userHasPermission(u, resource, action) = ReferenceDecision(u, resource, action)

\* an active user who is no administrator holds inventario/write and not
\* inventario/read: write is allowed and read is not
C14_Witness ==
    /\ users["u1"].isActive /\ users["u1"].role = "viewer"
    /\ \E id \in DOMAIN getUserPermissions("u1") :
          permissions[id] = [resource |-> "inventario", action |-> "write"]
    /\ \A id \in DOMAIN getUserPermissions("u1") : permissions[id].action # "read"
    /\ userHasPermission("u1", "inventario", "write")
    /\ ~userHasPermission("u1", "inventario", "read")

\* ----------------------------------------------------- guards: properties
IsGuard(call) == call.op \in {"requirePermission", "requireRole"}

\* C15 as stated: a guard runs the handler only when its storage check returned
\* true, and a check that threw ends in the guard's own 500 with the handler not run
C15_GuardPassesOnlyOnTrue ==
    IsGuard(lastCall) =>
        /\ lastCall.ret => lastCall.check = "true"
        /\ lastCall.check = "error" =>
              (~lastCall.ret /\ lastCall.resp.status = 500)

\* C15, amended: requirePermission runs the handler only when userHasPermission
\* returned true; requireRole only when userHasRole returned true or req.user's
\* primary role is administrator; a check that threw ends in the guard's own 500,
\* which no denial uses, with the handler not run
C15_GuardDeniesByDefault ==
    IsGuard(lastCall) =>
        /\ lastCall.ret =>
              \/ lastCall.check = "true"
              \/ (/\ lastCall.op = "requireRole" /\ lastCall.check = "false"
                  /\ lastCall.reqRole = "administrator")
        /\ lastCall.check = "error" <=>
              (lastCall.resp = Resp(500, "Permission check failed")
               \/ lastCall.resp = Resp(500, "Role check failed"))
        /\ lastCall.check = "error" => ~lastCall.ret
        /\ lastCall.ret <=> lastCall.resp = NoResp

\* the storage call of requirePermission threw for an active administrator, and
\* the request was refused with the 500
C15_Witness ==
    /\ lastCall.op = "requirePermission" /\ lastCall.check = "error"
    /\ ~lastCall.ret /\ lastCall.resp = Resp(500, "Permission check failed")
    /\ users["u1"].isActive /\ users["u1"].role = "administrator"

C17_LoginThenValidate ==
    [][\A c \in CallIds :
          LET old == calls[c]
              new == calls'[c]
          IN  /\ (old.kind = "login" /\ old.pc = "authed" /\ new.pc = "done") =>
                    /\ new.resp.status = 200
                    /\ new.token \in DOMAIN sessions'
                    /\ sessions'[new.token] =
                          [userId |-> old.user.id, expiresAt |-> now + SessionTtl]
              /\ (/\ old.pc \in {"idle", "done"} /\ new # old /\ new.kind = "validate"
                  /\ new.token \in DOMAIN sessions
                  /\ sessions[new.token].expiresAt > now) =>
                    (new.pc = "gotSession" /\ new.session = sessions[new.token])
              /\ (/\ old.kind = "validate" /\ old.pc = "gotSession" /\ new # old
                  /\ old.session # NoSession
                  /\ getUser(old.session.userId).isActive) =>
                    (new.pc = "gotUser" /\ new.user = getUser(old.session.userId))
              /\ (/\ old.kind = "validate" /\ old.pc = "gotUser" /\ new # old
                  /\ old.user.isActive) =>
                    /\ new.pc = "done"
                    /\ new.resp = ValidResp([id |-> old.session.userId,
                                              role |-> old.user.role,
                                              isActive |-> TRUE,
                                              email |-> old.user.email])]_vars

\* a validate of a token that a login returned has answered 200 with the user;
\* the token was never logged out and its session is there, a lifetime from its iat
C17_Witness ==
    \E c \in CallIds :
        LET t == calls[c].token
        IN  /\ calls[c].kind = "validate" /\ calls[c].pc = "done"
            /\ t \in issued /\ t \notin loggedOut
            /\ t \in DOMAIN sessions
            /\ sessions[t] = [userId |-> "u1", expiresAt |-> t.iat + SessionTtl]
            /\ calls[c].resp.status = 200
            /\ calls[c].resp.user = [id |-> "u1", role |-> "administrator", isActive |-> TRUE,
                                     email |-> "a@x"]

\* C18: validate and authenticateToken get past the session lookup only with a
\* row of the token that expires after now, read the user of that row from the
\* store, and succeed only if that user exists and is active; a request that
\* reads a deactivated user fails
C18_ValidateNeedsLiveSession ==
    [][\A c \in CallIds :
          LET old == calls[c]
              new == calls'[c]
          IN  /\ (/\ old.pc \in {"idle", "done"} /\ new.kind \in {"validate", "logout"}
                  /\ new.pc = "gotSession" /\ new.session # NoSession) =>
                    /\ new.token \in DOMAIN sessions
                    /\ sessions[new.token].expiresAt > now
                    /\ new.session = sessions[new.token]
              /\ (/\ old.kind \in {"validate", "logout"}
                  /\ old.pc = "gotSession" /\ new.pc = "gotUser") =>
                    /\ old.session # NoSession
                    /\ new.user = getUser(old.session.userId)
              /\ (/\ old.kind = "validate" /\ old.pc = "gotUser"
                  /\ new.pc = "done" /\ new.resp.status = 200) =>
                    (old.user # NoUser /\ old.user.isActive)
              /\ (old.kind = "logout" /\ old.pc = "gotUser" /\ new.pc = "deleted") =>
                    (old.user # NoUser /\ old.user.isActive)
              /\ (/\ old.kind \in {"validate", "logout"} /\ old.pc = "gotUser"
                  /\ new # old /\ ~old.user.isActive) =>
                    (new.pc = "done" /\ new.resp = Resp(401, "User not found or inactive"))]_vars

\* the user is deactivated, a token of the user has its session, unexpired, and
\* a validate of that token has been refused
C18_Witness ==
    \E c \in CallIds :
        LET t == calls[c].token
        IN  /\ calls[c].kind = "validate" /\ calls[c].pc = "done"
            /\ t \in issued /\ t \in DOMAIN sessions /\ sessions[t].expiresAt > now
            /\ sessions[t].userId = "u1" /\ ~users["u1"].isActive
            /\ calls[c].resp = Resp(401, "User not found or inactive")

\* C19: a logout that starts after a logout of the same token has answered, the
\* token's expiry not yet reached, is answered 200 as well
C19_LogoutIdempotent ==
    \A c \in CallIds :
        (/\ calls[c].kind = "logout" /\ calls[c].pc = "done" /\ calls[c].afterLogout
         /\ now < JwtExp(calls[c].token))
            => calls[c].resp.status = 200

\* C20: a step adds a row to the SsoToken table only if, before the step, some
\* bearer token verifies and has a live Session whose user exists and is
\* active, the row's module exists, and that user holds (module name, read)
\* or has primary role administrator; the row belongs to that user and module
\* and every other row is as it was.
C20_MintNeedsLiveSession ==
    [][\A t \in DOMAIN ssoTokens' \ DOMAIN ssoTokens :
          \E bearer \in DOMAIN sessions :
              /\ JwtVerifies(bearer)
              /\ sessions[bearer].expiresAt > now
              /\ sessions[bearer].userId \in DOMAIN users
              /\ users[sessions[bearer].userId].isActive
              /\ t.moduleId \in ModuleIds
              /\ \/ ReferenceDecision(sessions[bearer].userId, ModuleName(t.moduleId), "read")
                 \/ users[sessions[bearer].userId].role = "administrator"
              /\ ssoTokens'[t] = [userId |-> sessions[bearer].userId, moduleId |-> t.moduleId,
                                  expiresAt |-> now + SsoTtl, usedAt |-> Null]
              /\ \A o \in DOMAIN ssoTokens : o \in DOMAIN ssoTokens' /\ ssoTokens'[o] = ssoTokens[o]]_vars

\* a manager holding (inventario, read) has minted a token for that module
\* after another session was logged out
C20_Witness ==
    /\ loggedOut # {}
    /\ \E t \in DOMAIN ssoTokens :
          /\ ssoTokens[t].userId = "u2"
          /\ ssoTokens[t].moduleId = "m1"
          /\ ssoTokens[t].usedAt = Null
          /\ users["u2"].role = "manager"

\* C21: a redeem that fails because its token is malformed or was already
\* redeemed (same module, the token's expiry not yet reached) gets the response
\* a malformed token gets: the same status and the same body
C21_RedeemFailuresIdentical ==
    \A i \in Slots :
        (/\ reqs[i].pc = "done"
         /\ reqs[i].resp.status # 200
         /\ \/ reqs[i].token = Garbage
            \/ reqs[i].afterSuccess /\ reqs[i].token.moduleId = reqs[i].moduleId)
            => reqs[i].resp = RedeemCatch

\* C22: no Session, SsoToken or UserRole row references a user that is not in
\* the users table: a deleteUser that succeeded took the user's rows with it
C22_NoRowOfDeletedUser ==
    /\ \A t \in DOMAIN sessions : sessions[t].userId \in DOMAIN users
    /\ \A t \in DOMAIN ssoTokens : ssoTokens[t].userId \in DOMAIN users
    /\ \A e \in DOMAIN userRoles : userRoles[e] > 0 => e[1] \in DOMAIN users

\* C23: no two user records have the same email
C23_UniqueEmail ==
    \A a \in DOMAIN users, b \in DOMAIN users : a # b => users[a].email # users[b].email

\* what a lookup returns when, of the roles it started with, those in gone are
\* deleted with all their edges and the others are whole
WholeCascadeResult(c, gone) == UNION {c.before[r] : r \in DOMAIN c.before \ gone}

\* C24: a finished getUserPermissions or userHasPermission that overlapped with
\* deleteRole calls returns what it would return with each of those roles either
\* whole (before its deletion) or gone with all its edges (after it), never a
\* part of a role's permissions
C24_LookupSeesWholeCascade ==
    \A i \in CallIds :
        (calls[i].kind \in {"getUserPermissions", "userHasPermission"} /\ calls[i].pc = "done")
            => \E gone \in SUBSET (DOMAIN calls[i].before \ DOMAIN roles) :
                  IF calls[i].kind = "getUserPermissions"
                  THEN calls[i].ret = WholeCascadeResult(calls[i], gone)
                  ELSE calls[i].ret =
                          IF calls[i].user = NoUser \/ ~calls[i].user.isActive THEN FALSE
                          ELSE IF calls[i].user.role = "administrator" THEN TRUE
                          ELSE \E id \in WholeCascadeResult(calls[i], gone) :
                                   /\ permissions[id].resource = calls[i].resource
                                   /\ permissions[id].action = calls[i].action

\* a getUserPermissions of the manager that began while a custom role held
\* permissions and read that role's permissions after its deletion, next to a
\* userHasPermission of the manager that read them before
C24_Witness ==
    \E i \in CallIds, j \in CallIds :
        /\ calls[i].kind = "getUserPermissions" /\ calls[i].pc = "done"
        /\ calls[i].userId = "u2"
        /\ \E r \in DOMAIN calls[i].before : calls[i].before[r] # {} /\ r \notin DOMAIN roles
        /\ calls[i].ret = {}
        /\ calls[j].kind = "userHasPermission" /\ calls[j].pc = "done"
        /\ calls[j].userId = "u2" /\ calls[j].ret = TRUE

\* C25: once a validate of a token string has been refused for a missing or
\* expired session ('Invalid session', or 'Invalid token' for a well-formed
\* token), a validate of the same string that starts later finds no session,
\* and so cannot be answered 200
C25_TerminalSessionStates ==
    [][\A i \in CallIds, j \in CallIds :
          (/\ i # j
           /\ calls[j].kind = "validate" /\ calls[j].pc = "done"
           /\ calls[j].token # Garbage
           /\ calls[j].resp \in {Resp(401, "Invalid session"), Resp(401, "Invalid token")}
           /\ calls'[i] # calls[i]
           /\ calls'[i].kind = "validate" /\ calls'[i].pc = "gotSession"
           /\ calls'[i].token = calls[j].token)
              => calls'[i].session = NoSession]_vars

\* C26: in every state getSessionByToken returns a row exactly when
\* deleteExpiredSessions would keep it; a step of the sweep leaves no row with
\* expiresAt <= now and leaves every row with expiresAt > now as it was; and the
\* session a validate or logout gets from its lookup is never an expired one
C26_SweepAndLazyCheckAgree ==
    [][/\ \A t \in DOMAIN sessions :
             (getSessionByToken(t) # NoSession) <=> (t \in DOMAIN deleteExpiredSessions)
       /\ (sessions' # sessions /\ calls' = calls)
             => /\ \A t \in DOMAIN sessions' : sessions'[t].expiresAt > now
                /\ \A t \in DOMAIN sessions :
                      sessions[t].expiresAt > now
                          => t \in DOMAIN sessions' /\ sessions'[t] = sessions[t]
       /\ \A i \in CallIds :
             (/\ calls'[i] # calls[i]
              /\ calls'[i].pc = "gotSession"
              /\ calls'[i].session # NoSession)
                 => calls'[i].session.expiresAt > now]_vars

\* the sweep has removed the session issued at second 0, which no logout
\* touched, and has kept the one issued at second 1
C26_Witness ==
    /\ now = 1
    /\ \E t \in issued :
          /\ t.iat = 0
          /\ t \notin DOMAIN sessions
          /\ t \notin loggedOut
    /\ \A c \in CallIds : calls[c].kind # "logout"
    /\ \E t \in DOMAIN sessions : t.iat = 1 /\ sessions[t].expiresAt > now

\* C27: the step that answers a redeem with 200 is taken from the point after
\* markSsoTokenAsUsed has returned, with the token's row, if still in the table,
\* carrying a usedAt; and a step from the point before the write that leaves
\* the row without a usedAt ends the request with a 401
C27_SuccessOnlyAfterMark ==
    [][\A i \in Slots :
          /\ (reqs'[i] # reqs[i] /\ reqs'[i].pc = "done" /\ reqs'[i].resp.status = 200)
                => /\ reqs[i].pc = "marked"
                   /\ reqs[i].token \in DOMAIN ssoTokens
                         => ssoTokens[reqs[i].token].usedAt # Null
          /\ (/\ reqs[i].pc = "gotUser" /\ reqs'[i] # reqs[i]
              /\ reqs[i].token \in DOMAIN ssoTokens'
              /\ ssoTokens'[reqs[i].token].usedAt = Null)
                => reqs'[i].pc = "done" /\ reqs'[i].resp.status = 401]_vars

\* one redeem of a token was refused because the write failed (the catch
\* block's answer for a token that still verifies and an active user), and
\* another redeem of the same token succeeded with the row marked
C27_Witness ==
    \E i \in Slots, j \in Slots :
        /\ reqs[i].pc = "done" /\ reqs[i].resp = RedeemCatch
        /\ reqs[i].token.type = "sso" /\ JwtVerifies(reqs[i].token)
        /\ Succeeded(j) /\ reqs[j].token = reqs[i].token
        /\ reqs[j].token \in DOMAIN ssoTokens
        /\ ssoTokens[reqs[j].token].usedAt # Null

\* C28: a request behind requireAdmin is passed on only if the stored record of
\* the token's user has role administrator at that moment, whatever role the
\* token carries; a request behind requirePermission is decided as the
\* reference decision on the stored record decides; and a successful redeem
\* answers with the role getUser returned for the token's user during that
\* redeem, which is the stored role at that step
C28_DecisionsUseStoredRecord ==
    [][/\ (lastCall' # lastCall /\ lastCall'.op = "requireAdmin" /\ lastCall'.ret)
             => /\ lastCall'.bearer.userId \in DOMAIN users
                /\ users[lastCall'.bearer.userId].role = "administrator"
       /\ (lastCall' # lastCall /\ lastCall'.op = "requirePermission")
             => lastCall'.ret =
                   (/\ AuthenticatedUser(lastCall'.bearer) # NoUser
                    /\ ReferenceDecision(lastCall'.bearer.userId,
                                         lastCall'.resource, lastCall'.action))
       /\ \A i \in Slots :
             /\ (reqs'[i] # reqs[i] /\ reqs'[i].pc = "gotUser")
                   => reqs'[i].user = getUser(reqs[i].token.userId)
             /\ (reqs'[i] # reqs[i] /\ reqs'[i].pc = "done" /\ reqs'[i].resp.status = 200)
                   => reqs'[i].resp.userData.role = reqs[i].user.role]_vars

\* a request with the token issued to an administrator was refused by
\* requireAdmin after the user's role became viewer, and a redeem of an SSO
\* token minted for an administrator answered with the role viewer
C28_Witness ==
    /\ lastCall.op = "requireAdmin" /\ ~lastCall.ret
    /\ lastCall.resp.status = 403
    /\ lastCall.bearer.role = "administrator"
    /\ \E i \in Slots :
          /\ Succeeded(i)
          /\ reqs[i].token.role = "administrator"
          /\ reqs[i].resp.userData.role = "viewer"

\* C29: the step that refuses a redeem leaves the SsoToken table as it was, and
\* a redeem that has written to the table is not refused afterwards: the only
\* write of a redeem is the one that takes it to the point before its 200
C29_FailedRedeemLeavesRow ==
    [][\A i \in Slots :
          /\ (reqs'[i] # reqs[i] /\ reqs'[i].pc = "done" /\ reqs'[i].resp.status # 200)
                => ssoTokens' = ssoTokens /\ reqs[i].pc # "marked"
          /\ (reqs'[i] # reqs[i] /\ ssoTokens' # ssoTokens)
                => reqs'[i].pc = "marked"]_vars

\* a redeem of a token was refused because its user was inactive; the row is
\* still unexpired with a null usedAt, the user is active again, and a second
\* redeem of the same token has passed the row check and the user check
C29_Witness ==
    \E i \in Slots, j \in Slots :
        /\ reqs[i].pc = "done"
        /\ reqs[i].resp = Resp(401, "User not found or inactive")
        /\ reqs[i].token \in DOMAIN ssoTokens
        /\ ssoTokens[reqs[i].token].usedAt = Null
        /\ ssoTokens[reqs[i].token].expiresAt > now
        /\ reqs[j].pc = "gotUser"
        /\ reqs[j].token = reqs[i].token
        /\ reqs[j].ssoToken # NoRow
        /\ reqs[j].user # NoUser /\ reqs[j].user.isActive

\* C30: for every active user whose primary role is not administrator, every
\* module getModulesForUser lists passes the authorization check of the mint
C30_ListedModulesCanBeMinted ==
    \A u \in DOMAIN users :
        (users[u].isActive /\ users[u].role # "administrator")
            => \A m \in getModulesForUser(u) : MintAuthorized(getUser(u), m)

====
